---- MODULE Spec2Model ----
(***************************************************************************)
(* A model of crates/openvino/src/core.rs: the Core wrapper around the     *)
(* inference engine's C API.  Native handles live in a heap that only      *)
(* grows; the Rust values (Core, CNNNetwork, ExecutableNetwork, Blob) are  *)
(* owned by threads.  Each Core operation is a short sequence of steps of  *)
(* one thread, one step per foreign call, so that calls "in progress" and  *)
(* interleavings of threads are states of the model.                       *)
(***************************************************************************)
EXTENDS Integers, Sequences, FiniteSets, TLC

\* ------------------------------------------------------------------ bounds
\* Number of native handles the engine hands out in a single-threaded run.
MaxHandles == 4
\* Number of native handles the engine hands out in a run of two threads.
MaxShared == 3
\* Longest configuration path, in bytes.
MaxPathLen == 1

\* const NUM_THREADS (line 17).
NUM_THREADS == 1

Threads == {"t1", "t2"}
MainThread == {"t1"}
\* IEStatusCode values the native calls return: OK, GENERAL_ERROR, NOT_FOUND.
Statuses == {0, -1, -5}
Devices == {"CPU", "GPU", "NONEXISTENT_DEVICE"}
KnownDevices == {"CPU", "GPU"}
\* Bytes of a path: two ASCII letters, and one byte that is not valid UTF-8.
AsciiBytes == {97, 98}
OsBytes == AsciiBytes \cup {255}

SeqsUpTo(S, n) == UNION {[1..k -> S] : k \in 0..n}

None == [some |-> FALSE, val |-> <<>>]
Some(v) == [some |-> TRUE, val |-> v]
\* Option<&str>: a &str is always valid UTF-8.
XmlArgs == {None} \cup {Some(s) : s \in SeqsUpTo(AsciiBytes, MaxPathLen)}
\* Option<PathBuf>: a path is any byte string of the OS.
FoundPaths == {None} \cup {Some(p) : p \in SeqsUpTo(OsBytes, MaxPathLen)}

\* The (explicit, discoverable) path pairs the lifecycle specification draws from.
LifecycleInputs == {<<None, None>>, <<None, Some(<<255>>)>>}
\* The pairs the construction specification draws from.
AllInputs == XmlArgs \X FoundPaths

NullPtr == [null |-> TRUE, bytes |-> <<>>]
NoHandle == 0

VARIABLES
    libLoaded,  \* openvino_sys::library: the process-wide "loaded" state
    heap,       \* native handles: heap[h] = [kind, frees, parent, dev]
    cores,      \* live Core values: [instance, owner]
    networks,   \* live CNNNetwork values: [instance, owner]
    execs,      \* live ExecutableNetwork values: [instance, owner]
    pc,         \* pc[t]: where thread t is inside a Core operation
    frame,      \* frame[t]: the locals of the operation thread t runs
    ret,        \* the result an operation hands its caller, in the step it returns
    uaf         \* a native operation was handed a null or freed handle

vars == <<libLoaded, heap, cores, networks, execs, pc, frame, ret, uaf>>

\* ------------------------------------------------------------ native heap
Handles == 1..Len(heap)
Live(h) == h \in Handles /\ heap[h].frees = 0
NewHandle == Len(heap) + 1
\* The statuses a native call can return: the engine has no handle left to hand
\* out once it has created cap of them, and every call fails from then on.
StatusesAt(cap) == IF Len(heap) < cap THEN Statuses ELSE Statuses \ {0}

Alloc(hp, k, p, d) ==
    Append(hp, [kind |-> k, frees |-> 0, parent |-> p, dev |-> d])
Free(hp, h) == [hp EXCEPT ![h].frees = @ + 1]
\* A native operation is handed the handles hs.
Stale(hs) == \E h \in hs : ~Live(h)

\* The Core values that hold handle h.
CoreOf(h) == {c \in cores : c.instance = h}

\* --------------------------------------------------------------- helpers
NoFailure == [op |-> "none", net |-> NoHandle]
\* The ie_config_t of load_network (lines 97-101): one entry, no next.
NoConfig == <<>>
EmptyConfig == <<[name |-> "INFERENCE_NUM_THREADS", value |-> NUM_THREADS]>>

IdleFrame ==
    [op |-> "none", core |-> NoHandle, net |-> NoHandle, blob |-> NoHandle,
     xml |-> None, found |-> None, file |-> NullPtr, dev |-> "",
     config |-> NoConfig, calls |-> <<>>,
     res |-> [ok |-> TRUE, status |-> 0, instance |-> NoHandle], prev |-> NoFailure]

Call(f, s) == [fn |-> f, status |-> s]

NoResult ==
    [op |-> "none", ok |-> TRUE, err |-> "none", status |-> 0, instance |-> NoHandle,
     core |-> NoHandle, net |-> NoHandle, calls |-> <<>>, afterFailure |-> NoFailure]

\* Ok(value) and Err(error) of operation op on Core handle c (and network n).
Ok(op, h, c, n, cs) ==
    [NoResult EXCEPT !.op = op, !.instance = h, !.core = c, !.net = n, !.calls = cs]
Err(op, e, s, c, n, cs) ==
    [NoResult EXCEPT !.op = op, !.ok = FALSE, !.err = e, !.status = s,
                     !.core = c, !.net = n, !.calls = cs]

\* The failure, if any, that the operation about to run on Core handle c follows.
FollowsFailure(c) ==
    IF ~ret.ok /\ ret.core = c THEN [op |-> ret.op, net |-> ret.net] ELSE NoFailure

\* try_unsafe!(call): the status of a foreign call as a Result.
TryUnsafe(s) == IF s = 0 THEN [ok |-> TRUE, status |-> 0]
                         ELSE [ok |-> FALSE, status |-> s]

\* cstr!(s): a non-null pointer to the bytes of s followed by a NUL.
cstr(s) == [null |-> FALSE, bytes |-> s \o <<0>>]

\* Path::to_str: the path as a &str when it is valid UTF-8.
to_str(p) == IF \A i \in 1..Len(p) : p[i] < 128 THEN Some(p) ELSE None

\* Mutant of ResolveFile: the discovered path is preferred to the explicit one.
ResolveFileFinderFirst(xml, found) ==
    IF found.some
    THEN IF to_str(found.val).some
         THEN [ok |-> TRUE, file |-> cstr(to_str(found.val).val), finder |-> TRUE]
         ELSE [ok |-> FALSE, file |-> NullPtr, finder |-> TRUE]
    ELSE IF xml.some THEN [ok |-> TRUE, file |-> cstr(xml.val), finder |-> TRUE]
    ELSE [ok |-> TRUE, file |-> cstr(<<>>), finder |-> TRUE]

\* Core::new, lines 34-43: the configuration file handed to ie_core_create.
ResolveFile(xml, found) ==
    IF xml.some THEN [ok |-> TRUE, file |-> cstr(xml.val), finder |-> FALSE]
    ELSE IF found.some
         THEN IF to_str(found.val).some
              THEN [ok |-> TRUE, file |-> cstr(to_str(found.val).val), finder |-> TRUE]
              ELSE [ok |-> FALSE, file |-> NullPtr, finder |-> TRUE]
         ELSE [ok |-> TRUE, file |-> cstr(<<>>), finder |-> TRUE]

Return(t, r) ==
    /\ pc' = [pc EXCEPT ![t] = "idle"]
    /\ frame' = [frame EXCEPT ![t] = IdleFrame]
    /\ ret' = [r EXCEPT !.afterFailure = frame[t].prev]

\* -------------------------------------------------------------- Core::new
\* openvino_sys::library::load(): loads the shared library once per process.
LibraryLoad(okNow) ==
    IF libLoaded THEN [ok |-> TRUE, loaded |-> TRUE]
    ELSE [ok |-> okNow, loaded |-> okNow]

\* Mutant of NewLoad: the loader's error is dropped and construction goes on.
NewLoadIgnoresLoaderError(t, xml, found, okNow) ==
    /\ pc[t] = "idle"
    /\ LET ld == LibraryLoad(okNow)
           rf == ResolveFile(xml, found)
           c1 == <<Call("load", IF ld.ok THEN 0 ELSE 1)>>
           c2 == IF rf.finder THEN Append(c1, Call("find", 0)) ELSE c1
       IN /\ libLoaded' = ld.loaded
          /\ IF ~rf.ok
             THEN Return(t, Err("new", "CannotStringifyPath", 0, NoHandle, NoHandle, c2))
             ELSE /\ pc' = [pc EXCEPT ![t] = "new_create"]
                  /\ frame' = [frame EXCEPT ![t] =
                        [IdleFrame EXCEPT !.op = "new", !.xml = xml, !.found = found,
                                          !.file = rf.file, !.calls = c2]]
                  /\ ret' = NoResult
    /\ UNCHANGED <<heap, cores, networks, execs, uaf>>

\* Mutant of NewLoad: Core::new does not call the loader.
NewLoadSkipsLoader(t, xml, found, okNow) ==
    /\ pc[t] = "idle"
    /\ LET rf == ResolveFile(xml, found)
           c2 == IF rf.finder THEN <<Call("find", 0)>> ELSE <<>>
       IN /\ libLoaded' = libLoaded
          /\ IF ~rf.ok
             THEN Return(t, Err("new", "CannotStringifyPath", 0, NoHandle, NoHandle, c2))
             ELSE /\ pc' = [pc EXCEPT ![t] = "new_create"]
                  /\ frame' = [frame EXCEPT ![t] =
                        [IdleFrame EXCEPT !.op = "new", !.xml = xml, !.found = found,
                                          !.file = rf.file, !.calls = c2]]
                  /\ ret' = NoResult
    /\ UNCHANGED <<heap, cores, networks, execs, uaf>>

\* Core::new up to the call of ie_core_create (lines 31-45).
NewLoad(t, xml, found, okNow) ==
    /\ pc[t] = "idle"
    /\ LET ld == LibraryLoad(okNow)
           rf == ResolveFile(xml, found)
           c1 == <<Call("load", IF ld.ok THEN 0 ELSE 1)>>
           c2 == IF rf.finder THEN Append(c1, Call("find", 0)) ELSE c1
       IN /\ libLoaded' = ld.loaded
          /\ IF ~ld.ok
             THEN Return(t, Err("new", "SystemFailure", 0, NoHandle, NoHandle, c1))
             ELSE IF ~rf.ok
             THEN Return(t, Err("new", "CannotStringifyPath", 0, NoHandle, NoHandle, c2))
             ELSE /\ pc' = [pc EXCEPT ![t] = "new_create"]
                  /\ frame' = [frame EXCEPT ![t] =
                        [IdleFrame EXCEPT !.op = "new", !.xml = xml, !.found = found,
                                          !.file = rf.file, !.calls = c2]]
                  /\ ret' = NoResult
    /\ UNCHANGED <<heap, cores, networks, execs, uaf>>

\* ie_core_create returns and Core::new wraps the handle (lines 46-47).
NewCreate(t, s) ==
    /\ pc[t] = "new_create"
    /\ LET cs == Append(frame[t].calls, Call("ie_core_create", s))
           r  == TryUnsafe(s)
       IN IF ~r.ok
          THEN /\ Return(t, Err("new", "Inference", r.status, NoHandle, NoHandle, cs))
               /\ UNCHANGED <<heap, cores>>
          ELSE /\ heap' = Alloc(heap, "core", NoHandle, "")
               /\ cores' = cores \cup {[instance |-> NewHandle, owner |-> t]}
               /\ Return(t, Ok("new", NewHandle, NoHandle, NoHandle, cs))
    /\ uaf' = (uaf \/ frame[t].file.null)
    /\ UNCHANGED <<libLoaded, networks, execs>>

\* Mutant of DropCore: the Core goes away and its handle is never freed.
DropCoreLeaks(t, c) ==
    /\ pc[t] = "idle"
    /\ c \in cores /\ c.owner = t
    /\ cores' = cores \ {c}
    /\ ret' = NoResult
    /\ UNCHANGED <<libLoaded, heap, networks, execs, pc, frame, uaf>>

\* Mutant of DropCore: the handle is freed and the Core value stays usable.
DropCoreKeepsValue(t, c) ==
    /\ pc[t] = "idle"
    /\ c \in cores /\ c.owner = t
    /\ uaf' = (uaf \/ Stale({c.instance}))
    /\ heap' = Free(heap, c.instance)
    /\ ret' = NoResult
    /\ UNCHANGED <<libLoaded, cores, networks, execs, pc, frame>>

\* Drop for Core: ie_core_free on the handle (line 23).
DropCore(t, c) ==
    /\ pc[t] = "idle"
    /\ c \in cores /\ c.owner = t
    /\ uaf' = (uaf \/ Stale({c.instance}))
    /\ heap' = Free(heap, c.instance)
    /\ cores' = cores \ {c}
    /\ ret' = NoResult
    /\ UNCHANGED <<libLoaded, networks, execs, pc, frame>>

\* Core is Send (line 25): the value moves to another thread.
SendCore(t, u, c) ==
    /\ pc[t] = "idle"
    /\ c \in cores /\ c.owner = t /\ u # t
    /\ cores' = (cores \ {c}) \cup {[c EXCEPT !.owner = u]}
    /\ ret' = NoResult
    /\ UNCHANGED <<libLoaded, heap, networks, execs, pc, frame, uaf>>

\* -------------------------------------------------- read_network_from_file
\* Mutant of RnfBegin: the call takes a shared Core, from any thread.
RnfBeginShared(t, c) ==
    /\ pc[t] = "idle"
    /\ c \in cores
    /\ pc' = [pc EXCEPT ![t] = "rnf_read"]
    /\ frame' = [frame EXCEPT ![t] =
          [IdleFrame EXCEPT !.op = "read_network_from_file", !.core = c.instance,
                            !.prev = FollowsFailure(c.instance)]]
    /\ ret' = NoResult
    /\ UNCHANGED <<libLoaded, heap, cores, networks, execs, uaf>>

\* The call is entered with &mut self (lines 52-57).
RnfBegin(t, c) ==
    /\ pc[t] = "idle"
    /\ c \in cores /\ c.owner = t
    /\ pc' = [pc EXCEPT ![t] = "rnf_read"]
    /\ frame' = [frame EXCEPT ![t] =
          [IdleFrame EXCEPT !.op = "read_network_from_file", !.core = c.instance,
                            !.prev = FollowsFailure(c.instance)]]
    /\ ret' = NoResult
    /\ UNCHANGED <<libLoaded, heap, cores, networks, execs, uaf>>

\* Mutant of RnfRead: the status is not checked; the out-parameter is wrapped
\* whatever the call returned.
RnfReadIgnoresStatus(t, s) ==
    /\ pc[t] = "rnf_read"
    /\ LET h  == frame[t].core
           cs == <<Call("ie_core_read_network", s)>>
           i  == IF s = 0 THEN NewHandle ELSE NoHandle
       IN /\ uaf' = (uaf \/ Stale({h}))
          /\ heap' = IF s = 0 THEN Alloc(heap, "network", h, "") ELSE heap
          /\ networks' = networks \cup {[instance |-> i, owner |-> t]}
          /\ Return(t, Ok(frame[t].op, i, h, frame[t].net, cs))
    /\ UNCHANGED <<libLoaded, cores, execs>>

\* Mutant of RnfRead: a failed read frees the Core's handle.
RnfReadPoisonsCore(t, s) ==
    /\ pc[t] = "rnf_read"
    /\ LET h  == frame[t].core
           cs == <<Call("ie_core_read_network", s)>>
           r  == TryUnsafe(s)
       IN /\ uaf' = (uaf \/ Stale({h}))
          /\ IF ~r.ok
             THEN /\ heap' = Free(heap, h)
                  /\ cores' = cores \ CoreOf(h)
                  /\ networks' = networks
                  /\ Return(t, Err(frame[t].op, "Inference", r.status, h, frame[t].net, cs))
             ELSE /\ heap' = Alloc(heap, "network", h, "")
                  /\ networks' = networks \cup {[instance |-> NewHandle, owner |-> t]}
                  /\ cores' = cores
                  /\ Return(t, Ok(frame[t].op, NewHandle, h, frame[t].net, cs))
    /\ UNCHANGED <<libLoaded, execs>>

\* ie_core_read_network returns and the handle is wrapped (lines 58-64).
RnfRead(t, s) ==
    /\ pc[t] = "rnf_read"
    /\ LET h  == frame[t].core
           cs == <<Call("ie_core_read_network", s)>>
           r  == TryUnsafe(s)
       IN /\ uaf' = (uaf \/ Stale({h}))
          /\ IF ~r.ok
             THEN /\ UNCHANGED <<heap, networks>>
                  /\ Return(t, Err(frame[t].op, "Inference", r.status, h, frame[t].net, cs))
             ELSE /\ heap' = Alloc(heap, "network", h, "")
                  /\ networks' = networks \cup {[instance |-> NewHandle, owner |-> t]}
                  /\ Return(t, Ok(frame[t].op, NewHandle, h, frame[t].net, cs))
    /\ UNCHANGED <<libLoaded, cores, execs>>

\* ------------------------------------------------ read_network_from_buffer
\* Drop for Blob: releases the foreign buffer object the Blob owns.
DropBlob(hp, b) == Free(hp, b)

\* Blob::new(&weights_desc, weights_content)? (lines 69-76).
RnbBlobNew(t, c, s) ==
    /\ pc[t] = "idle"
    /\ c \in cores /\ c.owner = t
    /\ LET h  == c.instance
           cs == <<Call("Blob::new", s)>>
           r  == TryUnsafe(s)
       IN IF ~r.ok
          THEN /\ heap' = heap
               /\ Return(t, Err("read_network_from_buffer", "Inference", r.status, h, NoHandle, cs))
          ELSE /\ heap' = Alloc(heap, "blob", NoHandle, "")
               /\ pc' = [pc EXCEPT ![t] = "rnb_read"]
               /\ frame' = [frame EXCEPT ![t] =
                     [IdleFrame EXCEPT !.op = "read_network_from_buffer",
                                       !.core = h, !.blob = NewHandle, !.calls = cs,
                                       !.prev = FollowsFailure(h)]]
               /\ ret' = NoResult
    /\ UNCHANGED <<libLoaded, cores, networks, execs, uaf>>

\* ie_core_read_network_from_memory returns (lines 77-83).
RnbRead(t, s) ==
    /\ pc[t] = "rnb_read"
    /\ LET h  == frame[t].core
           cs == Append(frame[t].calls, Call("ie_core_read_network_from_memory", s))
           r  == TryUnsafe(s)
       IN /\ uaf' = (uaf \/ Stale({h, frame[t].blob}))
          /\ heap' = IF r.ok THEN Alloc(heap, "network", h, "") ELSE heap
          /\ frame' = [frame EXCEPT ![t].calls = cs,
                                    ![t].res = [ok |-> r.ok, status |-> r.status,
                                                instance |-> IF r.ok THEN NewHandle
                                                                     ELSE NoHandle]]
          /\ pc' = [pc EXCEPT ![t] = "rnb_exit"]
          /\ ret' = NoResult
    /\ UNCHANGED <<libLoaded, cores, networks, execs>>

\* Mutant of RnbExit: the early return on error skips the release of the Blob.
RnbExitLeaksOnError(t) ==
    /\ pc[t] = "rnb_exit"
    /\ LET f == frame[t]
       IN IF f.res.ok
          THEN /\ uaf' = (uaf \/ Stale({f.blob}))
               /\ heap' = DropBlob(heap, f.blob)
               /\ networks' = networks \cup {[instance |-> f.res.instance, owner |-> t]}
               /\ Return(t, Ok(f.op, f.res.instance, f.core, NoHandle, f.calls))
          ELSE /\ UNCHANGED <<uaf, heap, networks>>
               /\ Return(t, Err(f.op, "Inference", f.res.status, f.core, NoHandle, f.calls))
    /\ UNCHANGED <<libLoaded, cores, execs>>

\* The function returns: weights_blob goes out of scope and is dropped, on the
\* `?` path and on the Ok path alike (lines 83-85).
RnbExit(t) ==
    /\ pc[t] = "rnb_exit"
    /\ LET f == frame[t]
       IN /\ uaf' = (uaf \/ Stale({f.blob}))
          /\ heap' = DropBlob(heap, f.blob)
          /\ IF f.res.ok
             THEN /\ networks' = networks \cup {[instance |-> f.res.instance, owner |-> t]}
                  /\ Return(t, Ok(f.op, f.res.instance, f.core, NoHandle, f.calls))
             ELSE /\ networks' = networks
                  /\ Return(t, Err(f.op, "Inference", f.res.status, f.core, NoHandle, f.calls))
    /\ UNCHANGED <<libLoaded, cores, execs>>

\* ------------------------------------------------------------ load_network
\* The call is entered with &mut self and &CNNNetwork (lines 88-101).
LoadBegin(t, c, n, dev) ==
    /\ pc[t] = "idle"
    /\ c \in cores /\ c.owner = t
    /\ n \in networks /\ n.owner = t
    /\ pc' = [pc EXCEPT ![t] = "load_call"]
    /\ frame' = [frame EXCEPT ![t] =
          [IdleFrame EXCEPT !.op = "load_network", !.core = c.instance,
                            !.net = n.instance, !.dev = dev, !.config = EmptyConfig,
                            !.prev = FollowsFailure(c.instance)]]
    /\ ret' = NoResult
    /\ UNCHANGED <<libLoaded, heap, cores, networks, execs, uaf>>

\* Mutant of LoadCall: a successful load takes the Network and frees it.
LoadCallConsumesNetwork(t, s) ==
    /\ pc[t] = "load_call"
    /\ s = 0 => frame[t].dev \in KnownDevices
    /\ LET h  == frame[t].core
           n  == frame[t].net
           cs == <<Call("ie_core_load_network", s)>>
           r  == TryUnsafe(s)
       IN /\ uaf' = (uaf \/ Stale({h, n}))
          /\ IF ~r.ok
             THEN /\ UNCHANGED <<heap, execs, networks>>
                  /\ Return(t, Err(frame[t].op, "Inference", r.status, h, frame[t].net, cs))
             ELSE /\ heap' = Free(Alloc(heap, "exec", n, frame[t].dev), n)
                  /\ execs' = execs \cup {[instance |-> NewHandle, owner |-> t]}
                  /\ networks' = {w \in networks : w.instance # n}
                  /\ Return(t, Ok(frame[t].op, NewHandle, h, frame[t].net, cs))
    /\ UNCHANGED <<libLoaded, cores>>

\* ie_core_load_network returns and the handle is wrapped (lines 103-110).
LoadCall(t, s) ==
    /\ pc[t] = "load_call"
    /\ s = 0 => (frame[t].dev \in KnownDevices /\ frame[t].config # NoConfig)
    /\ LET h  == frame[t].core
           n  == frame[t].net
           cs == <<Call("ie_core_load_network", s)>>
           r  == TryUnsafe(s)
       IN /\ uaf' = (uaf \/ Stale({h, n}))
          /\ IF ~r.ok
             THEN /\ UNCHANGED <<heap, execs>>
                  /\ Return(t, Err(frame[t].op, "Inference", r.status, h, frame[t].net, cs))
             ELSE /\ heap' = Alloc(heap, "exec", n, frame[t].dev)
                  /\ execs' = execs \cup {[instance |-> NewHandle, owner |-> t]}
                  /\ Return(t, Ok(frame[t].op, NewHandle, h, frame[t].net, cs))
    /\ UNCHANGED <<libLoaded, cores, networks>>

\* ------------------------------------------------- the produced wrappers
\* Drop for CNNNetwork: releases its one foreign handle.
DropNetwork(t, n) ==
    /\ pc[t] = "idle"
    /\ n \in networks /\ n.owner = t
    /\ uaf' = (uaf \/ Stale({n.instance}))
    /\ heap' = Free(heap, n.instance)
    /\ networks' = networks \ {n}
    /\ ret' = NoResult
    /\ UNCHANGED <<libLoaded, cores, execs, pc, frame>>

\* Drop for ExecutableNetwork: releases its one foreign handle.
DropExec(t, e) ==
    /\ pc[t] = "idle"
    /\ e \in execs /\ e.owner = t
    /\ uaf' = (uaf \/ Stale({e.instance}))
    /\ heap' = Free(heap, e.instance)
    /\ execs' = execs \ {e}
    /\ ret' = NoResult
    /\ UNCHANGED <<libLoaded, cores, networks, pc, frame>>

\* ------------------------------------------------------------------ spec
Init ==
    /\ libLoaded = FALSE
    /\ heap = <<>>
    /\ cores = {}
    /\ networks = {}
    /\ execs = {}
    /\ pc = [t \in Threads |-> "idle"]
    /\ frame = [t \in Threads |-> IdleFrame]
    /\ ret = NoResult
    /\ uaf = FALSE

\* The operations of the threads in T, the engine handing out cap handles.
Step(T, cap) ==
    \/ \E t \in T, in \in LifecycleInputs, okNow \in BOOLEAN :
            NewLoad(t, in[1], in[2], okNow)
    \/ \E t \in T, s \in StatusesAt(cap) : NewCreate(t, s)
    \/ \E t \in T, c \in cores : DropCore(t, c)
    \/ \E t \in T, c \in cores : RnfBegin(t, c)
    \/ \E t \in T, s \in StatusesAt(cap) : RnfRead(t, s)
    \/ \E t \in T, c \in cores, s \in StatusesAt(cap) : RnbBlobNew(t, c, s)
    \/ \E t \in T, s \in StatusesAt(cap) : RnbRead(t, s)
    \/ \E t \in T : RnbExit(t)
    \/ \E t \in T, c \in cores, n \in networks, dev \in Devices :
            LoadBegin(t, c, n, dev)
    \/ \E t \in T, s \in StatusesAt(cap) : LoadCall(t, s)
    \/ \E t \in T, n \in networks : DropNetwork(t, n)
    \/ \E t \in T, e \in execs : DropExec(t, e)

\* One thread constructs, uses and destroys Cores and what they produce.
Next == Step(MainThread, MaxHandles)

Spec == Init /\ [][Next]_vars

\* Two threads do, and hand Cores to each other.
NextThreads ==
    \/ Step(Threads, MaxShared)
    \/ \E t, u \in Threads, c \in cores : SendCore(t, u, c)

SpecThreads == Init /\ [][NextThreads]_vars

\* Construction alone, over every configuration path.
NextNew ==
    \/ \E in \in AllInputs, okNow \in BOOLEAN : NewLoad("t1", in[1], in[2], okNow)
    \/ \E s \in StatusesAt(MaxHandles) : NewCreate("t1", s)
    \/ \E c \in cores : DropCore("t1", c)

SpecNew == Init /\ [][NextNew]_vars
\* ================================================================ claims
CoreHandles == {h \in Handles : heap[h].kind = "core"}
BlobHandles == {h \in Handles : heap[h].kind = "blob"}
Held(S) == {w.instance : w \in S}
Parent(h) == heap[h].parent
\* Thread t is inside a Core operation / inside a native call on a Core handle.
OpPcs == {"rnf_read", "rnb_read", "rnb_exit", "load_call"}
CallPcs == {"rnf_read", "rnb_read", "load_call"}
ReadLoadOps == {"read_network_from_file", "read_network_from_buffer", "load_network"}
InCall(t, h) == pc[t] \in CallPcs /\ frame[t].core = h
NativeCalls(cs) == {i \in 1..Len(cs) : cs[i].fn \notin {"load", "find"}}

\* C1: every Core that Core::new returned holds a non-null handle of a live
\* native core while it exists, no two Cores hold the same handle, the handle of
\* a destroyed Core has been passed to ie_core_free exactly once, and no native
\* operation is handed a freed handle.
C1_CoreFreedExactlyOnce ==
    /\ \A c \in cores : c.instance # NoHandle /\ c.instance \in CoreHandles
    /\ \A c, d \in cores : c.instance = d.instance => c = d
    /\ \A h \in CoreHandles :
          heap[h].frees = (IF h \in Held(cores) THEN 0 ELSE 1)
    /\ (ret.op = "new" /\ ret.ok) => ret.instance \in Held(cores)
    /\ ~uaf

\* Two Cores were constructed and destroyed, and a third one is alive.
C1_Witness ==
    /\ Cardinality({h \in CoreHandles : heap[h].frees = 1}) >= 2
    /\ cores # {}

\* C2: the transient weights Blob of read_network_from_buffer is alive while
\* ie_core_read_network_from_memory runs and until the function leaves its
\* scope, and has been released exactly once when the function has returned,
\* whether the native read succeeded or failed: no Blob is left allocated.
C2_BlobReleasedOnce ==
    /\ \A b \in BlobHandles :
          heap[b].frees =
            (IF \E t \in Threads : pc[t] \in {"rnb_read", "rnb_exit"} /\ frame[t].blob = b
             THEN 0 ELSE 1)
    /\ \A t \in Threads :
          pc[t] \in {"rnb_read", "rnb_exit"} => frame[t].blob \in BlobHandles
    /\ ret.op = "read_network_from_buffer" => \A b \in BlobHandles : heap[b].frees = 1
    /\ ~uaf

\* read_network_from_buffer has returned the failure of the native read, and
\* the Blob it had created is released.
C2_Witness ==
    /\ ret.op = "read_network_from_buffer" /\ ~ret.ok
    /\ Len(ret.calls) = 2 /\ ret.calls[1].status = 0
    /\ \E b \in BlobHandles : heap[b].frees = 1

\* C3: an operation whose native call returned a non-zero status returns an
\* error carrying that status and no Core, Network or ExecutableNetwork; an
\* operation returns Ok only if every native call it made returned 0, and then
\* the handle it returns is wrapped.
C3_StatusPreserved ==
    /\ \A i \in NativeCalls(ret.calls) :
          ret.calls[i].status # 0 =>
            /\ ~ret.ok /\ ret.err = "Inference"
            /\ ret.status = ret.calls[i].status
            /\ ret.instance = NoHandle
    /\ (ret.op # "none" /\ ret.ok) =>
          /\ \A i \in 1..Len(ret.calls) : ret.calls[i].status = 0
          /\ NativeCalls(ret.calls) # {}
          /\ ret.instance \in Held(cores) \cup Held(networks) \cup Held(execs)
    /\ \A w \in cores \cup networks \cup execs : w.instance \in Handles

\* load_network returned the NOT_FOUND status of the native call.
C3_Witness ==
    /\ ret.op = "load_network" /\ ~ret.ok /\ ret.status = -5
    /\ ret.calls = <<Call("ie_core_load_network", -5)>>

\* The step in which load_network returns.
C4_LoadStep ==
    \A t \in Threads :
      pc[t] = "load_call" /\ pc'[t] = "idle" =>
        LET n == frame[t].net IN
        /\ \E w \in networks : w.instance = n /\ w \in networks'
        /\ networks' = networks
        /\ heap'[n] = heap[n]
        /\ ret'.ok => /\ ret'.instance \notin Handles
                      /\ [instance |-> ret'.instance, owner |-> t] \in execs'
                      /\ heap'[ret'.instance].parent = n
        /\ ~ret'.ok => execs' = execs /\ heap' = heap

\* C4: no step of load_network frees, replaces or changes the Network it was
\* given, whether it succeeds or fails, and a successful call returns an
\* ExecutableNetwork handle that did not exist before and is not the Network's.
C4_LoadKeepsNetwork == [][C4_LoadStep]_vars

\* The same Network was loaded for two devices, the second time right after a
\* load_network on it had failed, and it is still alive.
C4_Witness ==
    /\ ret.op = "load_network" /\ ret.ok
    /\ ret.afterFailure = [op |-> "load_network", net |-> ret.net]
    /\ ret.net \in Held(networks)
    /\ \E e \in execs :
          /\ e.instance # ret.instance
          /\ Parent(e.instance) = ret.net
          /\ heap[e.instance].dev # heap[ret.instance].dev

\* C5: the path handed to ie_core_create is the explicit argument if there is
\* one, otherwise the discovered path, otherwise the empty string, and it is
\* always a non-null NUL-terminated string.
C5_ConfigPrecedence ==
    \A t \in Threads :
      pc[t] = "new_create" =>
        LET f == frame[t]
            b == f.file.bytes
            want == IF f.xml.some THEN f.xml.val
                    ELSE IF f.found.some THEN f.found.val ELSE <<>>
        IN /\ ~f.file.null
           /\ Len(b) >= 1 /\ b[Len(b)] = 0
           /\ \A i \in 1..(Len(b) - 1) : b[i] # 0
           /\ SubSeq(b, 1, Len(b) - 1) = want

\* ie_core_create is about to get the explicit path although the finder would
\* return another one.
C5_Witness ==
    \E t \in Threads :
      /\ pc[t] = "new_create"
      /\ frame[t].xml.some /\ frame[t].found.some
      /\ frame[t].xml.val # frame[t].found.val
      /\ frame[t].xml.val # <<>>

\* What a failed Core::new returns, and the calls it made.
C6_FailureShape ==
    (ret.op = "new" /\ ~ret.ok) =>
      /\ ret.instance = NoHandle
      /\ ret.err \in {"SystemFailure", "CannotStringifyPath", "Inference"}
      /\ ret.err = "SystemFailure" => ret.calls = <<Call("load", 1)>>
      /\ ret.err = "CannotStringifyPath" =>
            ret.calls = <<Call("load", 0), Call("find", 0)>>
      /\ ret.err = "Inference" =>
            /\ ret.calls[1] = Call("load", 0)
            /\ ret.calls[Len(ret.calls)] = Call("ie_core_create", ret.status)
            /\ ret.status # 0
            /\ NativeCalls(ret.calls) = {Len(ret.calls)}
\* The step in which Core::new returns a failure.
C6_FailureStep == (ret'.op = "new" /\ ~ret'.ok) => (heap' = heap /\ cores' = cores)
\* Every native core is held by a Core or was freed once.
C6_NoCoreLeft == \A h \in CoreHandles : heap[h].frees = (IF h \in Held(cores) THEN 0 ELSE 1)

\* C6: a failed Core::new is one of: the loader failed and nothing else was
\* called; the loader succeeded, the finder returned a path that is no string
\* and ie_core_create was not called; ie_core_create was called after both and
\* returned a failure status.  The failing step allocates and frees nothing
\* and leaves the set of Cores as it was.
C6_NewFailures == [](C6_FailureShape /\ C6_NoCoreLeft) /\ [][C6_FailureStep]_vars

\* Core::new failed on a discovered path that is not a string, with a Core of
\* an earlier construction alive.
C6_Witness ==
    /\ ret.op = "new" /\ ret.err = "CannotStringifyPath"
    /\ cores # {}

\* C7 as claimed: every live Network's Core and every live ExecutableNetwork's
\* Network is alive, and no native operation is handed a freed handle.
C7_NoChildOutlivesParent ==
    /\ \A n \in networks : Live(Parent(n.instance))
    /\ \A e \in execs : Live(Parent(e.instance))
    /\ ~uaf

\* C7 as amended: a Network or ExecutableNetwork may outlive what produced it,
\* but every handle a wrapper holds is alive, every handle is freed at most
\* once, and no native operation is handed a null or freed handle.
C7_NoUseAfterFree ==
    /\ ~uaf
    /\ \A h \in Handles : heap[h].frees <= 1
    /\ \A w \in cores \cup networks \cup execs : Live(w.instance)
    /\ \A t \in Threads :
          /\ pc[t] \in OpPcs => Live(frame[t].core)
          /\ pc[t] = "load_call" => Live(frame[t].net)

\* A Network is alive after its Core was freed, and an ExecutableNetwork after
\* its Network was.
C7_Witness ==
    /\ \E n \in networks : ~Live(Parent(n.instance))
    /\ \E e \in execs : ~Live(Parent(e.instance))

\* The loader is the first call of Core::new and has succeeded before
\* ie_core_create is called.
C8_LoaderShape ==
    /\ ret.op = "new" => (Len(ret.calls) >= 1 /\ ret.calls[1].fn = "load")
    /\ \A t \in Threads :
          pc[t] = "new_create" => (libLoaded /\ frame[t].calls[1] = Call("load", 0))
    /\ CoreHandles # {} => libLoaded
\* No step unloads the library or fails to load a loaded one.
C8_LoaderStep ==
    /\ libLoaded => libLoaded'
    /\ (libLoaded /\ ret'.op = "new") => ret'.err # "SystemFailure"

\* C8: the loaded state, once set, stays set; a Core::new that runs with the
\* library loaded does not fail with SystemFailure; every Core::new calls the
\* loader first, and ie_core_create is called only with the library loaded.
C8_LoadedOnce == []C8_LoaderShape /\ [][C8_LoaderStep]_vars

\* A second Core was constructed after the first one was destroyed.
C8_Witness ==
    /\ ret.op = "new" /\ ret.ok /\ libLoaded
    /\ \E h \in CoreHandles : heap[h].frees = 1

\* A step of a read or load operation.
C9_OpStep ==
    \A t \in Threads :
      (pc[t] \in OpPcs \/ pc'[t] \in OpPcs) =>
        LET h == IF pc[t] \in OpPcs THEN frame[t].core ELSE frame'[t].core IN
        /\ CoreOf(h) # {}
        /\ CoreOf(h) = {c \in cores' : c.instance = h}
        /\ heap'[h] = heap[h]
\* The state in which a read or load operation has returned.
C9_AfterOp ==
    ret.op \in ReadLoadOps =>
      /\ \E c \in CoreOf(ret.core) : Live(c.instance) /\ pc[c.owner] = "idle"
      /\ Len(ret.calls) <= (IF ret.op = "read_network_from_buffer" THEN 2 ELSE 1)
      /\ \A i, j \in 1..Len(ret.calls) : ret.calls[i].fn = ret.calls[j].fn => i = j

\* C9: no step of read_network_from_file, read_network_from_buffer or
\* load_network changes the Core it runs on or its handle; when one of them
\* has returned, with Ok or with an error, the Core is alive with that handle
\* and its owner is free to call it again; each made every native call once.
C9_CoreUnchanged == []C9_AfterOp /\ [][C9_OpStep]_vars

\* An operation succeeded on a Core right after an operation had failed on it.
C9_Witness ==
    /\ ret.op \in ReadLoadOps /\ ret.ok
    /\ ret.afterFailure.op \in ReadLoadOps
    /\ CoreOf(ret.core) # {}

\* C10: at most one thread is inside a native call on a given Core handle, that
\* thread owns the Core, the handle is not freed while the call runs, and it
\* is freed at most once.
C10_OneCallPerCore ==
    /\ \A h \in CoreHandles :
          /\ Cardinality({t \in Threads : InCall(t, h)}) <= 1
          /\ heap[h].frees <= 1
          /\ \A t \in Threads :
                (pc[t] \in OpPcs /\ frame[t].core = h) =>
                   /\ heap[h].frees = 0
                   /\ [instance |-> h, owner |-> t] \in cores
    /\ \A t \in Threads : pc[t] \in OpPcs => frame[t].core \in CoreHandles
    /\ ~uaf

\* A thread is inside a native call on a Core that another thread had used to
\* read a Network, while that other thread is inside a native call as well.
C10_Witness ==
    \E t, u \in Threads, n \in networks :
      /\ n.owner = u /\ u # t
      /\ InCall(t, Parent(n.instance))
      /\ pc[u] \in CallPcs
====
